---- MODULE Spec2Model ----
(***************************************************************************)
(* A model of flex-graphql-article/index.js: a Kinvey Flex function that   *)
(* serves one GraphQL query (getAge) and one mutation (setAge, changeAge   *)
(* in the earlier revision) over the FriendsAges collection.               *)
(*                                                                         *)
(* The file holds two revisions of the service.  The earlier one (lines    *)
(* 1-174) keeps the host's handles in the module-level object `references` *)
(* and wraps each store call by hand; the later one (lines 175-331) passes *)
(* an explicit context to every resolver.  The variable rev selects the    *)
(* revision a behaviour runs; it never changes.                            *)
(*                                                                         *)
(* The data store, the logger and the host are collaborators.  The store   *)
(* is modelled as one sequence of entities per application environment:    *)
(* find returns the entities whose name matches, in order; save replaces   *)
(* the entity that has the given _id, or appends the entity under a fresh  *)
(* _id when it carries none.  The store answers a call by invoking the     *)
(* error-first handler once, and applies a save only when it reports       *)
(* success.  Node runs one callback at a time, so each action is one       *)
(* callback run to its end: the host's delivery of a request up to the     *)
(* lookup being issued, or a store handler together with the then/catch    *)
(* chain it releases.  The host's completion call (complete().setBody())   *)
(* follows the resolver's settlement and writes no state modelled here.    *)
(***************************************************************************)
EXTENDS Integers, Sequences, FiniteSets, TLC

\* ------------------------------------------------------------------ bounds
MaxAge == 1

\* ------------------------------------------------------------ value spaces
Names == {"Alice", "Bob"}
Ages == 0..MaxAge
Requests == {1, 2}
Environments == {"envA", "envB"}
Kinds == {"query", "mutation"}
StoreErrors == {"E_TIMEOUT", "E_DENIED"}
FalsyErrors == {"null", "undefined"}

\* JavaScript values a resolver settles with, in one shape.
Undefined == [type |-> "undefined", num |-> 0, text |-> <<>>]
Num(n) == [type |-> "number", num |-> n, text |-> <<>>]
Str(parts) == [type |-> "string", num |-> 0, text |-> parts]

\* An entity of the collection.  id = 0: the object carries no _id yet.
\* hasAge = FALSE: the object has no own property "age" (age is then 0 here).
\* extra: the other fields of the entity, "" when there are none.
Entity(id, name, hasAge, age, extra) ==
    [id |-> id, name |-> name, hasAge |-> hasAge, age |-> age, extra |-> extra]

\* A promise: pending, resolved with a value, or rejected with a reason.
Pending(none) == [state |-> "pending", reason |-> "", value |-> none]
Resolved(v) == [state |-> "resolved", reason |-> "", value |-> v]
Rejected(e, none) == [state |-> "rejected", reason |-> e, value |-> none]

VARIABLES
    rev,         \* "v1": lines 1-174, "v2": lines 175-331
    references,  \* v1's module-level references.modules ("null" until set)
    store,       \* environment -> sequence of entities of FriendsAges
    pc,          \* request -> "idle" | "finding" | "saving" | "done"
    req,         \* request -> what the host and GraphQL supplied
    data,        \* request -> the looked-up entity, <<>> or <<entity>>
    inner,       \* request -> the promise of its latest promisify call
    cb,          \* request -> the (error, result) its handler last received
    outcome,     \* request -> the promise the resolver returned
    calls,       \* request -> the store calls it issued, in order
    log,         \* what logger.error received, in order
    prior        \* request -> the requests already finished when it arrived

vars == <<rev, references, store, pc, req, data, inner, cb, outcome, calls, log, prior>>

\* ------------------------------------------------------- promisify (adapter)
NoEntity == Entity(0, "", FALSE, 0, "")
QueryArg(name) == [kind |-> "query", ent |-> Entity(0, name, FALSE, 0, "")]
EntityArg(e) == [kind |-> "entity", ent |-> e]
HandlerArg == [kind |-> "handler", ent |-> NoEntity]

\* if (error): what JavaScript takes for true among the handler's error values.
Truthy(error) == error \notin FalsyErrors

\* func(...args, handler): the argument list the wrapped operation receives.
promisifyArgs(args) == Append(args, HandlerArg)

\* A slip of the handler: testing error !== null, which takes an undefined error
\* for a failure.
promisifyHandlerStrictNull(error, result) ==
    IF error # "null" THEN Rejected(error, <<>>) ELSE Resolved(result)

\* The handler promisify hands to the wrapped operation: reject(error) when the
\* error is truthy, resolve(data) otherwise.
promisifyHandler(error, result) ==
    IF Truthy(error) THEN Rejected(error, <<>>) ELSE Resolved(result)

\* ------------------------------------------------------------ the data store
\* collection.find(query, handler): the entities whose name equals the query's.
storeFind(s, args) == SelectSeq(s, LAMBDA e : e.name = args[1].ent.name)

\* collection.save(entity, handler): the entity as the store keeps it.
storeSaved(s, args) ==
    IF \E i \in 1..Len(s) : s[i].id = args[1].ent.id
    THEN args[1].ent
    ELSE [args[1].ent EXCEPT !.id = Len(s) + 1]

\* The collection after the save: replaced in place, or appended.
storeSave(s, args) ==
    IF \E i \in 1..Len(s) : s[i].id = args[1].ent.id
    THEN [i \in 1..Len(s) |-> IF s[i].id = args[1].ent.id THEN args[1].ent ELSE s[i]]
    ELSE Append(s, storeSaved(s, args))

\* -------------------------------------------------------------- the resolvers
\* data[0]: the first match, kept as <<>> (undefined) or <<entity>>.
fetchFriendData(found) == IF found = <<>> THEN <<>> ELSE <<found[1]>>

NotSetSentence(name) ==
    Str(<<"Sorry. You still have not set age for your friend - ", name,
          ". You can do that now.">>)
AgeSentence(name, age) ==
    Str(<<"Your friend - ", name, "'s age is ", ToString(age), ".">>)

\* Later revision: if (!data || !data.age) the "not set" sentence.
getAgeV2(name, d) ==
    IF d = <<>> \/ ~d[1].hasAge \/ d[1].age = 0
    THEN NotSetSentence(name)
    ELSE AgeSentence(name, d[1].age)

\* Earlier revision: the first then() prepares {success, message}; the second
\* reads preparedResponse.<misspelt property>, which no object has, so the
\* template prints "undefined".
getAgeV1(name, d) ==
    IF d = <<>> \/ ~d[1].hasAge
    THEN Str(<<"Sorry. ", "undefined">>)
    ELSE AgeSentence(name, d[1].age)

getAge(name, d) == IF rev = "v1" THEN getAgeV1(name, d) ELSE getAgeV2(name, d)

\* Slips of the upsert: saving a fresh object whatever the lookup found;
\* rebuilding the found record from name and age alone; saving the found record
\* without assigning the new age.
setAgeEntityAlwaysInsert(name, age, d) == Entity(0, name, TRUE, age, "")
setAgeEntityRebuilt(name, age, d) ==
    IF d = <<>> THEN Entity(0, name, TRUE, age, "") ELSE Entity(d[1].id, name, TRUE, age, "")
setAgeEntityUnassigned(name, age, d) ==
    IF d = <<>> THEN Entity(0, name, TRUE, age, "") ELSE d[1]

\* setAge / changeAge: the entity handed to save after the lookup.
setAgeEntity(name, age, d) ==
    IF d = <<>>
    THEN Entity(0, name, TRUE, age, "")
    ELSE [d[1] EXCEPT !.hasAge = TRUE, !.age = age]

\* The catch of a resolver: the earlier revision logs and returns nothing, so
\* its promise resolves with undefined; logPromiseError logs and rejects.
catchOutcome(error) ==
    IF rev = "v1" THEN Resolved(Undefined) ELSE Rejected(error, Undefined)

\* The modules handle a store call goes through, for a request that came with `own`:
\* references.modules in the earlier revision, context.modules in the later.
modulesOf(own, refs) == IF rev = "v1" THEN refs ELSE own

\* ---------------------------------------------------------------- the state
NoRequest == [kind |-> "query", name |-> "", age |-> 0, modules |-> "null"]
NoCallback == [error |-> "none", result |-> <<>>]

SeedAlice == {Entity(1, "Alice", FALSE, 0, "Paris")}
                 \cup {Entity(1, "Alice", TRUE, a, "Paris") : a \in Ages}
SeedBob == Entity(2, "Bob", TRUE, MaxAge, "")
SeedStores == {<<>>} \cup {<<a>> : a \in SeedAlice} \cup {<<a, SeedBob>> : a \in SeedAlice}

Init ==
    /\ rev \in {"v1", "v2"}
    /\ references = "null"
    /\ store \in {[e \in Environments |-> IF e = "envA" THEN s ELSE <<>>] : s \in SeedStores}
    /\ pc = [r \in Requests |-> "idle"]
    /\ req = [r \in Requests |-> NoRequest]
    /\ data = [r \in Requests |-> <<>>]
    /\ inner = [r \in Requests |-> Pending(<<>>)]
    /\ cb = [r \in Requests |-> NoCallback]
    /\ outcome = [r \in Requests |-> Pending(Undefined)]
    /\ calls = [r \in Requests |-> <<>>]
    /\ log = <<>>
    /\ prior = [r \in Requests |-> {}]

\* if (!references.modules) references.modules = modules; the later revision
\* keeps no such object.
registerReferences(refs, modules) ==
    IF rev = "v1" /\ refs = "null" THEN modules ELSE refs

StoreCall(op, modules, args) == [op |-> op, modules |-> modules, args |-> args]
LastCall(r) == calls[r][Len(calls[r])]

\* flex.functions.register("query", ...): the host delivers a request with its
\* modules handle; graphql runs the resolver, which issues the lookup.
Register(r, kind, name, age, modules) ==
    /\ pc[r] = "idle"
    /\ references' = registerReferences(references, modules)
    /\ req' = [req EXCEPT ![r] = [kind |-> kind, name |-> name, age |-> age, modules |-> modules]]
    /\ calls' = [calls EXCEPT ![r] =
                   <<StoreCall("find", modulesOf(modules, registerReferences(references, modules)),
                             promisifyArgs(<<QueryArg(name)>>))>>]
    /\ inner' = [inner EXCEPT ![r] = Pending(<<>>)]
    /\ pc' = [pc EXCEPT ![r] = "finding"]
    /\ prior' = [prior EXCEPT ![r] = {q \in Requests : pc[q] = "done"}]
    /\ UNCHANGED <<rev, store, data, cb, outcome, log>>

\* The resolver's catch, run when a promisified store call rejects.
Caught(r, error) ==
    /\ log' = Append(log, [request |-> r, error |-> error])
    /\ outcome' = [outcome EXCEPT ![r] = catchOutcome(error)]
    /\ pc' = [pc EXCEPT ![r] = "done"]

\* find's handler fires with (error, result); the then-chain of the resolver
\* runs on: a query settles with its sentence, a mutation issues its save.
FindCallback(r, error) ==
    /\ pc[r] = "finding"
    /\ LET call == LastCall(r)
           result == IF Truthy(error) THEN <<>> ELSE storeFind(store[call.modules], call.args)
           p == promisifyHandler(error, result)
           d == fetchFriendData(p.value)
       IN  /\ cb' = [cb EXCEPT ![r] = [error |-> error, result |-> result]]
           /\ inner' = [inner EXCEPT ![r] = IF req[r].kind = "mutation" /\ p.state = "resolved"
                                            THEN Pending(<<>>) ELSE p]
           /\ IF p.state = "rejected"
              THEN /\ Caught(r, p.reason)
                   /\ UNCHANGED <<data, calls>>
              ELSE /\ data' = [data EXCEPT ![r] = d]
                   /\ IF req[r].kind = "query"
                      THEN /\ outcome' = [outcome EXCEPT ![r] = Resolved(getAge(req[r].name, d))]
                           /\ pc' = [pc EXCEPT ![r] = "done"]
                           /\ UNCHANGED calls
                      ELSE /\ calls' = [calls EXCEPT ![r] = Append(@,
                                  StoreCall("save", modulesOf(req[r].modules, references),
                                      promisifyArgs(<<EntityArg(setAgeEntity(req[r].name, req[r].age, d))>>)))]
                           /\ pc' = [pc EXCEPT ![r] = "saving"]
                           /\ UNCHANGED outcome
                   /\ UNCHANGED log
    /\ UNCHANGED <<rev, references, store, req, prior>>

\* save's handler fires with (error, saved entity); then(data => data.age).
SaveCallback(r, error) ==
    /\ pc[r] = "saving"
    /\ LET call == LastCall(r)
           s == store[call.modules]
           result == IF Truthy(error) THEN <<>> ELSE <<storeSaved(s, call.args)>>
           p == promisifyHandler(error, result)
       IN  /\ store' = IF Truthy(error) THEN store
                       ELSE [store EXCEPT ![call.modules] = storeSave(s, call.args)]
           /\ cb' = [cb EXCEPT ![r] = [error |-> error, result |-> result]]
           /\ inner' = [inner EXCEPT ![r] = p]
           /\ IF p.state = "rejected"
              THEN Caught(r, p.reason)
              ELSE /\ outcome' = [outcome EXCEPT ![r] = Resolved(Num(p.value[1].age))]
                   /\ pc' = [pc EXCEPT ![r] = "done"]
                   /\ UNCHANGED log
    /\ UNCHANGED <<rev, references, req, data, calls, prior>>

Next ==
    \/ \E r \in Requests, kind \in Kinds, name \in Names, age \in Ages, m \in Environments :
          Register(r, kind, name, IF kind = "query" THEN 0 ELSE age, m)
    \/ \E r \in Requests, error \in FalsyErrors \cup StoreErrors : FindCallback(r, error)
    \/ \E r \in Requests, error \in FalsyErrors \cup StoreErrors : SaveCallback(r, error)

Spec == Init /\ [][Next]_vars

\* ------------------------------------------------------- reading the state
Finished(r) == pc[r] = "done"
\* The request ran to its end and every store call it made reported success.
Succeeded(r) == Finished(r) /\ ~Truthy(cb[r].error)
\* The request ended on a store call that reported an error.
StoreFailed(r) == Finished(r) /\ Truthy(cb[r].error)
IsQuery(r) == pc[r] # "idle" /\ req[r].kind = "query"
IsMutation(r) == pc[r] # "idle" /\ req[r].kind = "mutation"
\* Both requests address the same name in the same environment's collection.
SameKey(a, b) == req[a].name = req[b].name /\ calls[a][1].modules = calls[b][1].modules
Matches(s, name) == {i \in 1..Len(s) : s[i].name = name}
LoggedFor(r) == {i \in 1..Len(log) : log[i].request = r}
\* This step is request r's save reporting success.
SaveApplied(r) == pc[r] = "saving" /\ pc'[r] = "done" /\ ~Truthy(cb'[r].error)

\* ------------------------------------------------------------------ claims

\* C1: once a mutation (name, age) has succeeded and no other write to that
\* name intervenes, a later getAge(name) returns "Your friend - {name}'s age is
\* {age}." with that age, age 0 included.
C1_ReadAfterWrite ==
    \A w \in Requests, q \in Requests :
        (IsMutation(w) /\ IsQuery(q) /\ SameKey(w, q) /\ w \in prior[q]
            /\ Succeeded(w) /\ Succeeded(q)
            /\ \A c \in Requests \ {w, q} : ~(IsMutation(c) /\ SameKey(c, w)))
        => outcome[q] = Resolved(AgeSentence(req[q].name, req[w].age))

\* C2: when the store holds no record for the name, or a record without an
\* age, getAge(name) returns the "not set" sentence, and it contains the name.
C2_NotSetSentence ==
    \A q \in Requests :
        (IsQuery(q) /\ Succeeded(q) /\ (data[q] = <<>> \/ ~data[q][1].hasAge))
        => /\ outcome[q] = Resolved(NotSetSentence(req[q].name))
           /\ \E i \in 1..Len(outcome[q].value.text) :
                  outcome[q].value.text[i] = req[q].name

\* C3: a stored age of 0 is an age that is set: getAge(name) returns the
\* "age is 0" sentence for it, never the "not set" sentence.
C3_ZeroIsSet ==
    \A q \in Requests :
        (IsQuery(q) /\ Succeeded(q) /\ data[q] # <<>> /\ data[q][1].hasAge
            /\ data[q][1].age = 0)
        => outcome[q] = Resolved(AgeSentence(req[q].name, 0))

\* C4: two mutations of one name, the second arriving after the first has
\* finished, both successful, no other mutation of that name about: the store
\* then holds exactly one record for the
\* name, its age is the second call's, and the second call saved an entity that
\* already had an _id (the update branch).
C4_SequentialUpsert ==
    \A a \in Requests, b \in Requests :
        (IsMutation(a) /\ IsMutation(b) /\ SameKey(a, b) /\ a \in prior[b]
            /\ Succeeded(a) /\ Succeeded(b)
            /\ \A c \in Requests \ {a, b} : ~(IsMutation(c) /\ SameKey(c, a)))
        => LET s == store[LastCall(b).modules]
               m == Matches(s, req[b].name)
           IN  /\ Cardinality(m) = 1
               /\ \A i \in m : s[i].hasAge /\ s[i].age = req[b].age
               /\ LastCall(b).args[1].ent.id # 0
C4_Witness ==
    \E a \in Requests, b \in Requests :
        /\ IsMutation(a) /\ IsMutation(b) /\ SameKey(a, b) /\ a \in prior[b]
        /\ Succeeded(a) /\ Succeeded(b)
        /\ req[a].age # req[b].age
        /\ LastCall(a).args[1].ent.id = 0

\* C5: when a store call fails, the error reaches the logger exactly once, the
\* resolver's promise rejects with that same error (it never resolves), and the
\* request issues no store call after the failed one.
C5_FailurePropagates ==
    \A r \in Requests :
        StoreFailed(r)
        => /\ outcome[r] = Rejected(cb[r].error, Undefined)
           /\ Cardinality(LoggedFor(r)) = 1
           /\ \A i \in LoggedFor(r) : log[i].error = cb[r].error
           /\ Len(calls[r]) = (IF LastCall(r).op = "find" THEN 1 ELSE 2)

\* C6: a successful mutation of a name that has a record changes that record's
\* age alone: the record keeps its _id, name and other fields as looked up,
\* the collection keeps its length and every other entity, and the other
\* environments' collections are untouched.
C6_UpdateFrame ==
    [][\A r \in Requests :
          (SaveApplied(r) /\ data[r] # <<>>)
          => LET env == LastCall(r).modules
                 old == data[r][1]
             IN  /\ Len(store'[env]) = Len(store[env])
                 /\ \A i \in 1..Len(store[env]) :
                        IF store[env][i].id = old.id
                        THEN /\ store'[env][i].age = req[r].age
                             /\ store'[env][i].hasAge
                             /\ store'[env][i].id = old.id
                             /\ store'[env][i].name = old.name
                             /\ store'[env][i].extra = old.extra
                        ELSE store'[env][i] = store[env][i]
                 /\ \A e \in Environments \ {env} : store'[e] = store[e]]_vars
C6_Witness ==
    \E r \in Requests :
        /\ IsMutation(r) /\ Succeeded(r) /\ data[r] # <<>>
        /\ data[r][1].extra = "Paris" /\ data[r][1].age # req[r].age
        /\ Len(store[LastCall(r).modules]) = 2

\* C7: the promise of a promisified call is pending until the handler is
\* invoked; invoked with a falsy error it resolves with the handler's result,
\* invoked with a truthy error it rejects with that error; and the wrapped
\* operation receives the caller's arguments followed by the handler.
C7_AdapterSettles ==
    \A r \in Requests :
        /\ pc[r] \in {"finding", "saving"} => inner[r].state = "pending"
        /\ Finished(r) =>
              /\ ~Truthy(cb[r].error) => inner[r] = Resolved(cb[r].result)
              /\ Truthy(cb[r].error) => inner[r] = Rejected(cb[r].error, <<>>)
        /\ \A i \in 1..Len(calls[r]) :
              /\ Len(calls[r][i].args) = 2
              /\ calls[r][i].args[2] = HandlerArg
              /\ calls[r][i].op = "find" => calls[r][i].args[1] = QueryArg(req[r].name)
              /\ calls[r][i].op = "save" => calls[r][i].args[1].kind = "entity"
C7_Witness ==
    \E a \in Requests, b \in Requests :
        /\ Finished(a) /\ cb[a].error = "undefined" /\ inner[a].state = "resolved"
        /\ inner[a].value # <<>>
        /\ Finished(b) /\ cb[b].error = "E_DENIED" /\ inner[b].state = "rejected"
        /\ Len(calls[b]) = 2

\* C8: every successful save of a mutation on an existing record is applied as
\* it stands, whatever was saved since that mutation's lookup: right after it the
\* stored age is that mutation's age and the mutation reports its own age; and
\* nothing but a save changes a collection.  So of two racing mutations of one
\* name the one saved last determines the stored age, and both report success.
C8_LastWriterWins ==
    [][/\ \A r \in Requests :
             (SaveApplied(r) /\ data[r] # <<>>)
             => LET env == LastCall(r).modules
                IN  /\ outcome'[r] = Resolved(Num(req[r].age))
                    /\ \A i \in 1..Len(store'[env]) :
                           store'[env][i].id = data[r][1].id
                           => store'[env][i].hasAge /\ store'[env][i].age = req[r].age
       /\ store' # store => \E r \in Requests : SaveApplied(r)]_vars
C8_Witness ==
    \E a \in Requests, b \in Requests :
        /\ a # b /\ IsMutation(a) /\ IsMutation(b) /\ SameKey(a, b)
        /\ Succeeded(a) /\ Succeeded(b)
        /\ req[a].age # req[b].age
        /\ data[a] # <<>> /\ data[b] = data[a] /\ ~data[a][1].hasAge
        /\ outcome[a] = Resolved(Num(req[a].age))
        /\ outcome[b] = Resolved(Num(req[b].age))
        /\ \E i \in 1..Len(store[LastCall(a).modules]) :
              /\ store[LastCall(a).modules][i].id = data[a][1].id
              /\ store[LastCall(a).modules][i].age = req[b].age

\* C9: the collection of environment envB starts empty; in every state
\* reachable by queries and mutations, racing ones included, it holds at most
\* one record per name.
C9_UniqueName ==
    \A n \in Names : Cardinality(Matches(store["envB"], n)) <= 1

\* C10: every store call of a request goes through the modules handle the host
\* supplied with that request, whatever handle earlier requests came with.
C10_OwnHandle ==
    \A r \in Requests : \A i \in 1..Len(calls[r]) :
        calls[r][i].modules = req[r].modules

====
